---- MODULE Spec2Model ----
(***************************************************************************)
(* Cylon (src/dfa.rs): compilation of a list of robots.txt rules into a    *)
(* DFA (states, transitions) and matching of a path against that DFA.      *)
(*                                                                         *)
(* Characters are modelled by their Unicode scalar values, strings by      *)
(* sequences of characters.  Vec indices keep the 0-based values of the    *)
(* source; At(v, i) reads v[i].  Option values are sequences of length at  *)
(* most one (None = <<>>, Some(x) = <<x>>).                                *)
(***************************************************************************)
EXTENDS Integers, Sequences, FiniteSets, TLC

VARIABLES
    input,        \* the rule list handed to compile by the caller
    alphabet,     \* the characters of the paths the callers of allow pass
    maxpath,      \* the greatest length of the paths the callers of allow pass
    active,       \* the callers of allow that share the compiled DFA
    rules,        \* compile: the (mutable) parameter `rules`
    states,       \* compile: `states`, then Cylon.states
    transitions,  \* compile: `transitions`, then Cylon.transitions
    queue,        \* compile: the work queue
    prefixes,     \* compile: for every index of `states`, the prefix it was pushed for (history)
    pc,           \* compile: "start", "loop", "done" (returned) or "panic"
    rpc,          \* allow, per caller: "idle", "fold", "returned" or "panic"
    path,         \* allow, per caller: the argument `path`
    pending,      \* allow, per caller: the characters the fold has yet to consume
    state,        \* allow, per caller: the fold accumulator / local `state`
    last,         \* allow, per caller: the state left and the transition found by the latest lookup
    result        \* allow, per caller: the value returned (<<>> before a return)

vars == <<input, alphabet, maxpath, active, rules, states, transitions, queue, prefixes,
          pc, rpc, path, pending, state, last, result>>

(***************************************************************************)
(* Bounds of the model.                                                    *)
(***************************************************************************)
\* the rules of a list, the characters of its patterns taken together, the
\* characters of a path, the callers of allow
MaxRules == 2
MaxChars == 3
MaxPath == 2
NumReaders == 2

(***************************************************************************)
(* Characters.                                                             *)
(***************************************************************************)
Dollar == 36
Star == 42
\* The other characters of the model: '%' (37), which sorts between '$' and
\* '*'; '/' (47) and 'a' (97), which sort behind '*'; U+00E9 (233), two bytes
\* in UTF-8; 'z' (122), which occurs in no pattern.

\* char::len_utf8 for the characters of the model
len_utf8(c) == IF c < 128 THEN 1 ELSE IF c < 2048 THEN 2 ELSE 3

RECURSIVE str_len(_)
\* str::len: the length of a string in bytes
str_len(s) == IF s = <<>> THEN 0 ELSE len_utf8(Head(s)) + str_len(Tail(s))

\* str::is_char_boundary
is_char_boundary(s, n) == \E k \in 0..Len(s) : str_len(SubSeq(s, 1, k)) = n

\* &s[0..n] for n a char boundary of s
slice_to(s, n) == SubSeq(s, 1, CHOOSE k \in 0..Len(s) : str_len(SubSeq(s, 1, k)) = n)

\* str::starts_with
starts_with(s, prefix) ==
    /\ Len(prefix) <= Len(s)
    /\ SubSeq(s, 1, Len(prefix)) = prefix

\* s.chars().last()
chars_last(s) == IF s = <<>> THEN <<>> ELSE <<s[Len(s)]>>

RECURSIVE str_less(_, _)
\* Ord::cmp on str is Less: lexicographic on bytes, which for UTF-8 is
\* lexicographic on scalar values
str_less(a, b) ==
    IF b = <<>> THEN FALSE
    ELSE IF a = <<>> THEN TRUE
    ELSE IF Head(a) # Head(b) THEN Head(a) < Head(b)
    ELSE str_less(Tail(a), Tail(b))

\* Vec indexing with the 0-based index of the source
At(v, i) == v[i + 1]
InBounds(v, i) == i >= 0 /\ i < Len(v)

(***************************************************************************)
(* Data model.                                                             *)
(***************************************************************************)
Allow == "Allow"
Disallow == "Disallow"
Intermediate == "Intermediate"

\* enum Rule: Rule::Allow(pattern) / Rule::Disallow(pattern)
Rule(tag, pattern) == [tag |-> tag, pattern |-> pattern]

\* Rule::inner
inner(rule) == rule.pattern

\* enum Edge
MatchChar(c) == <<"MatchChar", c>>
MatchAny == <<"MatchAny">>
MatchEow == <<"MatchEow">>

\* struct Transition(Edge, usize)
Transition(edge, next_state) == [edge |-> edge, next_state |-> next_state]

(***************************************************************************)
(* Cylon::compile.                                                         *)
(***************************************************************************)
RECURSIVE insert_sorted_first(_, _)
\* insertion of a rule in front of every rule that is not less: the sort of
\* an unstable sort_by, which puts equal patterns in the reverse order
insert_sorted_first(sorted, rule) ==
    IF sorted = <<>> THEN <<rule>>
    ELSE IF ~str_less(inner(Head(sorted)), inner(rule))
         THEN <<rule>> \o sorted
         ELSE <<Head(sorted)>> \o insert_sorted_first(Tail(sorted), rule)

RECURSIVE insert_sorted(_, _)
\* insertion of a rule behind every rule that is not greater: a stable sort
insert_sorted(sorted, rule) ==
    IF sorted = <<>> THEN <<rule>>
    ELSE IF str_less(inner(rule), inner(Head(sorted)))
         THEN <<rule>> \o sorted
         ELSE <<Head(sorted)>> \o insert_sorted(Tail(sorted), rule)

\* compile without the sort: the rules stay in the order given
sort_none(rs) == rs

RECURSIVE sort_by_inner(_)
\* rules.sort_by(|a, b| Ord::cmp(a.inner(), b.inner()))
sort_by_inner(rs) ==
    IF rs = <<>> THEN <<>>
    ELSE insert_sorted(sort_by_inner(SubSeq(rs, 1, Len(rs) - 1)), rs[Len(rs)])

\* fallback without the arm `State::Disallow => 1`
fallback_inherit(state_, last_char, wildcard_state) ==
    IF state_ = Allow THEN 0 ELSE wildcard_state

\* fallback whose last arm is the Disallow sink
fallback_deny(state_, last_char, wildcard_state) ==
    IF state_ = Allow THEN 0
    ELSE IF state_ = Disallow /\ last_char = <<Dollar>> THEN wildcard_state
    ELSE 1

\* the fallback state of the prefix taken from the queue
fallback(state_, last_char, wildcard_state) ==
    IF state_ = Allow THEN 0
    ELSE IF state_ = Disallow /\ last_char = <<Dollar>> THEN wildcard_state
    ELSE IF state_ = Disallow THEN 1
    ELSE wildcard_state

\* first_transition with the arms of '$' and '*' exchanged
first_transition_self(last_char, wildcard_state, transitions_len) ==
    IF last_char = <<Dollar>> THEN Transition(MatchAny, transitions_len)
    ELSE IF last_char = <<Star>> THEN Transition(MatchAny, wildcard_state)
    ELSE Transition(MatchAny, wildcard_state)

\* the first entry of the edge list of the prefix taken from the queue
first_transition(last_char, wildcard_state, transitions_len) ==
    IF last_char = <<Dollar>> THEN Transition(MatchAny, wildcard_state)
    ELSE IF last_char = <<Star>> THEN Transition(MatchAny, transitions_len)
    ELSE Transition(MatchAny, wildcard_state)

\* the classification a child prefix is queued with
child_state(rule, eow) ==
    IF rule.tag = Allow /\ eow THEN Allow
    ELSE IF rule.tag = Disallow /\ eow THEN Disallow
    ELSE Intermediate

\* child_index with the length the queue had before the child was pushed
child_index_before(transitions_len, queue_len) == transitions_len + queue_len - 1

\* the index predicted for the child just pushed on the queue
child_index(transitions_len, queue_len) == transitions_len + queue_len

\* edge_of with the arms of '*' and '$' exchanged
edge_of_swapped(edge_char) ==
    IF edge_char = Star THEN MatchEow
    ELSE IF edge_char = Dollar THEN MatchAny
    ELSE MatchChar(edge_char)

\* the edge kind of a child, from the last character of its prefix
edge_of(edge_char) ==
    IF edge_char = Star THEN MatchAny
    ELSE IF edge_char = Dollar THEN MatchEow
    ELSE MatchChar(edge_char)

\* copy_to_parent that holds for every prefix
copy_always(last_char) == TRUE

\* copy_to_parent that holds for no prefix
copy_never(last_char) == FALSE

\* whether the edge of a child is also pushed on the parent's list
copy_to_parent(last_char) == last_char = <<Star>>

\* The closure of for_each, applied to one (path, rule) of the sorted list
\* that passed neither filter out.  acc holds what the closure captures.
visit(acc, rule, parent_prefix, last_char, wildcard_state, parent_state) ==
    LET path_ == inner(rule)
        n == str_len(parent_prefix) + 1
    IN  IF ~is_char_boundary(path_, n)
        THEN [acc EXCEPT !.panic = TRUE]
        ELSE
        LET child_prefix == slice_to(path_, n) IN
        IF acc.curr_prefix = child_prefix
        THEN acc
        ELSE
        LET eow == child_prefix = path_
            queue_ == Append(acc.queue,
                             [prefix |-> child_prefix,
                              wildcard_state |-> wildcard_state,
                              parent_state |-> Len(acc.transitions),
                              state |-> child_state(rule, eow)])
            edge_char == child_prefix[Len(child_prefix)]
            transition == Transition(edge_of(edge_char),
                                     child_index(Len(acc.transitions), Len(queue_)))
        IN  [curr_prefix |-> child_prefix,
             queue |-> queue_,
             transitions |->
                 IF copy_to_parent(last_char)
                 THEN IF InBounds(acc.transitions, parent_state)
                      THEN [acc.transitions EXCEPT ![parent_state + 1] = Append(@, transition)]
                      ELSE acc.transitions
                 ELSE acc.transitions,
             t |-> Append(acc.t, transition),
             panic |-> acc.panic \/ (copy_to_parent(last_char)
                                     /\ ~InBounds(acc.transitions, parent_state))]

RECURSIVE for_each(_, _, _, _, _, _, _)
\* rules.iter()...filter(starts_with).filter(!=).for_each(...), from rule i on
for_each(acc, rs, i, parent_prefix, last_char, wildcard_state, parent_state) ==
    IF i > Len(rs) \/ acc.panic THEN acc
    ELSE LET path_ == inner(rs[i])
             next == IF starts_with(path_, parent_prefix) /\ path_ # parent_prefix
                     THEN visit(acc, rs[i], parent_prefix, last_char,
                                wildcard_state, parent_state)
                     ELSE acc
         IN  for_each(next, rs, i + 1, parent_prefix, last_char,
                      wildcard_state, parent_state)

\* resolve that pushes the pending classification as it is
resolve_keep(state_, states_, wildcard_state) == state_

\* the classification pushed for the prefix taken from the queue
resolve(state_, states_, wildcard_state) ==
    IF state_ \in {Allow, Disallow} THEN state_ ELSE At(states_, wildcard_state)

\* One iteration of the while loop on the machine m = [rules, states,
\* transitions, queue, panic], whose queue is not empty.
iteration(m) ==
    LET head == Head(m.queue)
        parent_prefix == head.prefix
        last_char == chars_last(parent_prefix)
        wildcard_state == fallback(head.state, last_char, head.wildcard_state)
        t == <<first_transition(last_char, wildcard_state, Len(m.transitions))>>
        acc == for_each([curr_prefix |-> <<>>, queue |-> Tail(m.queue),
                         transitions |-> m.transitions, t |-> t, panic |-> FALSE],
                        m.rules, 1, parent_prefix, last_char, wildcard_state,
                        head.parent_state)
    IN  IF acc.panic \/ ~InBounds(m.states, wildcard_state)
        THEN [m EXCEPT !.panic = TRUE]
        ELSE [rules |-> m.rules,
              states |-> Append(m.states, resolve(head.state, m.states, wildcard_state)),
              transitions |-> Append(acc.transitions, acc.t),
              queue |-> acc.queue,
              panic |-> FALSE]

\* the machine before the first iteration
begin(rs) ==
    [rules |-> sort_by_inner(rs),
     states |-> <<Allow, Disallow>>,
     transitions |-> << <<Transition(MatchAny, 0)>>, <<Transition(MatchAny, 1)>> >>,
     queue |-> << [prefix |-> <<>>, wildcard_state |-> 0, parent_state |-> 0,
                   state |-> Intermediate] >>,
     panic |-> FALSE]

RECURSIVE run(_)
run(m) == IF m.panic \/ m.queue = <<>> THEN m ELSE run(iteration(m))

\* Cylon::compile as a function of the rule list: the machine at the return
\* (or at the panic)
compile(rs) == run(begin(rs))

(***************************************************************************)
(* Cylon::allow.                                                           *)
(***************************************************************************)
\* Iterator::rev().find(pred): the last entry of t among those that satisfy
\* the predicate, given by their positions
rfind(t, hits) ==
    IF hits = {} THEN <<>>
    ELSE <<t[CHOOSE i \in hits : \A j \in hits : j <= i]>>

\* char_pred with the arms of MatchAny and MatchEow exchanged
char_pred_swapped(transition, path_char) ==
    \/ transition.edge = MatchEow
    \/ /\ transition.edge # MatchAny
       /\ transition.edge = MatchChar(path_char)

\* char_pred whose arm of MatchEow is true as well
char_pred_eow(transition, path_char) ==
    \/ transition.edge = MatchAny
    \/ transition.edge = MatchEow
    \/ transition.edge = MatchChar(path_char)

\* the predicate of the lookup for a path character
char_pred(transition, path_char) ==
    \/ transition.edge = MatchAny
    \/ /\ transition.edge # MatchEow
       /\ transition.edge = MatchChar(path_char)

\* eow_pred without the arm of MatchEow
eow_pred_any(transition) == transition.edge = MatchAny

\* the predicate of the lookup after the last character
eow_pred(transition) ==
    \/ transition.edge = MatchEow
    \/ transition.edge = MatchAny

\* the transition found for a path character in state s (None: unwrap panics)
char_lookup(transitions_, s, path_char) ==
    LET t == At(transitions_, s)
    IN  rfind(t, {i \in 1..Len(t) : char_pred(t[i], path_char)})

\* the transition found after the last character in state s
eow_lookup(transitions_, s) ==
    LET t == At(transitions_, s)
    IN  rfind(t, {i \in 1..Len(t) : eow_pred(t[i])})

\* the classification of the final state as the value returned (None: the
\* unreachable!() arm)
verdict(states_, s) ==
    IF At(states_, s) = Allow THEN <<TRUE>>
    ELSE IF At(states_, s) = Disallow THEN <<FALSE>>
    ELSE <<>>

RECURSIVE fold(_, _, _)
\* path.chars().fold(s, ...): the state after the characters cs (None: panic)
fold(transitions_, s, cs) ==
    IF cs = <<>> THEN <<s>>
    ELSE IF ~InBounds(transitions_, s) THEN <<>>
    ELSE LET found == char_lookup(transitions_, s, Head(cs))
         IN  IF found = <<>> THEN <<>>
             ELSE fold(transitions_, found[1].next_state, Tail(cs))

\* Cylon::allow as a function of the DFA and the path (None: panic)
allow(states_, transitions_, path_) ==
    LET folded == fold(transitions_, 2, path_)
    IN  IF folded = <<>> \/ ~InBounds(transitions_, folded[1]) THEN <<>>
        ELSE LET found == eow_lookup(transitions_, folded[1])
                 s == IF found = <<>> THEN folded[1] ELSE found[1].next_state
             IN  IF ~InBounds(states_, s) THEN <<>> ELSE verdict(states_, s)

(***************************************************************************)
(* The state machine: one call of compile, then calls of allow on the DFA  *)
(* it returned.                                                            *)
(***************************************************************************)
NoLookup == [from |-> 0, sym |-> <<>>, found |-> <<>>]

\* the strings over chars of lo to hi characters
Strings(chars, lo, hi) == UNION {[1..k -> chars] : k \in lo..hi}

\* the characters of the patterns of a rule list
CharsOf(rs) ==
    UNION {{inner(rs[i])[k] : k \in 1..Len(inner(rs[i]))} : i \in 1..Len(rs)}

\* the characters of the rule list and 'z'
PathChars(rs) == CharsOf(rs) \cup {122}

\* compile is called with a list of ruleLists; allow is called by readers
\* with paths of at most n characters
InitOf(ruleLists, n, readers) ==
    /\ input \in ruleLists
    /\ alphabet = PathChars(input)
    /\ maxpath = n
    /\ active = readers
    /\ rules = input
    /\ states = <<>>
    /\ transitions = <<>>
    /\ queue = <<>>
    /\ prefixes = <<>>
    /\ pc = "start"
    /\ rpc = [r \in 1..NumReaders |-> "idle"]
    /\ path = [r \in 1..NumReaders |-> <<>>]
    /\ pending = [r \in 1..NumReaders |-> <<>>]
    /\ state = [r \in 1..NumReaders |-> 0]
    /\ last = [r \in 1..NumReaders |-> NoLookup]
    /\ result = [r \in 1..NumReaders |-> <<>>]

readerVars == <<rpc, path, pending, state, last, result>>

\* compile, up to the loop: the sinks (which stand for no prefix and are
\* given the empty one), the sort, the root entry of the queue
CompileBegin ==
    /\ pc = "start"
    /\ LET m == begin(rules)
       IN  /\ rules' = m.rules
           /\ states' = m.states
           /\ transitions' = m.transitions
           /\ queue' = m.queue
    /\ prefixes' = << <<>>, <<>> >>
    /\ pc' = "loop"
    /\ UNCHANGED <<input, alphabet, maxpath, active, readerVars>>

\* compile: one iteration of `while !queue.is_empty()`
CompileLoop ==
    /\ pc = "loop"
    /\ queue # <<>>
    /\ LET m == iteration([rules |-> rules, states |-> states,
                           transitions |-> transitions, queue |-> queue,
                           panic |-> FALSE])
       IN  IF m.panic
           THEN /\ pc' = "panic"
                /\ UNCHANGED <<states, transitions, queue, prefixes>>
           ELSE /\ pc' = "loop"
                /\ states' = m.states
                /\ transitions' = m.transitions
                /\ queue' = m.queue
                /\ prefixes' = Append(prefixes, Head(queue).prefix)
    /\ UNCHANGED <<input, alphabet, maxpath, active, rules, readerVars>>

\* compile: the loop ends and Self { states, transitions } is returned
CompileReturn ==
    /\ pc = "loop"
    /\ queue = <<>>
    /\ pc' = "done"
    /\ UNCHANGED <<input, alphabet, maxpath, active, rules, states, transitions, queue,
                   prefixes, readerVars>>

\* a caller calls allow(path) on the shared DFA
AllowCall(r) ==
    /\ pc = "done"
    /\ r \in active
    /\ rpc[r] = "idle"
    /\ \E p \in Strings(alphabet, 0, maxpath) :
           /\ path' = [path EXCEPT ![r] = p]
           /\ pending' = [pending EXCEPT ![r] = p]
    /\ rpc' = [rpc EXCEPT ![r] = "fold"]
    /\ state' = [state EXCEPT ![r] = 2]
    /\ last' = [last EXCEPT ![r] = NoLookup]
    /\ result' = [result EXCEPT ![r] = <<>>]
    /\ UNCHANGED <<input, alphabet, maxpath, active, rules, states, transitions, queue,
                   prefixes, pc>>

\* AllowChar that moves the transition it found to the end of the list of the
\* state, where the next lookup finds it first
AllowChar_memo(r) ==
    /\ rpc[r] = "fold"
    /\ pending[r] # <<>>
    /\ LET path_char == Head(pending[r])
           found == IF InBounds(transitions, state[r])
                    THEN char_lookup(transitions, state[r], path_char)
                    ELSE <<>>
       IN  /\ last' = [last EXCEPT ![r] = [from |-> state[r], sym |-> <<path_char>>,
                                           found |-> found]]
           /\ IF found = <<>>
              THEN /\ rpc' = [rpc EXCEPT ![r] = "panic"]
                   /\ UNCHANGED <<state, pending, transitions>>
              ELSE /\ rpc' = rpc
                   /\ state' = [state EXCEPT ![r] = found[1].next_state]
                   /\ pending' = [pending EXCEPT ![r] = Tail(@)]
                   /\ transitions' = [transitions EXCEPT ![state[r] + 1] =
                          SelectSeq(@, LAMBDA x : x # found[1]) \o found]
    /\ UNCHANGED <<input, alphabet, maxpath, active, rules, states, queue, prefixes, pc,
                   path, result>>

\* allow: the fold closure, for the next character of the path
AllowChar(r) ==
    /\ rpc[r] = "fold"
    /\ pending[r] # <<>>
    /\ LET path_char == Head(pending[r])
           found == IF InBounds(transitions, state[r])
                    THEN char_lookup(transitions, state[r], path_char)
                    ELSE <<>>
       IN  /\ last' = [last EXCEPT ![r] = [from |-> state[r], sym |-> <<path_char>>,
                                           found |-> found]]
           /\ IF found = <<>>
              THEN /\ rpc' = [rpc EXCEPT ![r] = "panic"]
                   /\ UNCHANGED <<state, pending>>
              ELSE /\ rpc' = rpc
                   /\ state' = [state EXCEPT ![r] = found[1].next_state]
                   /\ pending' = [pending EXCEPT ![r] = Tail(@)]
    /\ UNCHANGED <<input, alphabet, maxpath, active, rules, states, transitions, queue,
                   prefixes, pc, path, result>>

\* allow: the end-of-path lookup and the classification of the final state
AllowEow(r) ==
    /\ rpc[r] = "fold"
    /\ pending[r] = <<>>
    /\ LET found == IF InBounds(transitions, state[r])
                    THEN eow_lookup(transitions, state[r])
                    ELSE <<>>
           s == IF found = <<>> THEN state[r] ELSE found[1].next_state
           v == IF InBounds(transitions, state[r]) /\ InBounds(states, s)
                THEN verdict(states, s)
                ELSE <<>>
       IN  /\ last' = [last EXCEPT ![r] = [from |-> state[r], sym |-> <<>>,
                                           found |-> found]]
           /\ state' = [state EXCEPT ![r] = s]
           /\ result' = [result EXCEPT ![r] = v]
           /\ rpc' = [rpc EXCEPT ![r] = IF v = <<>> THEN "panic" ELSE "returned"]
    /\ UNCHANGED <<input, alphabet, maxpath, active, rules, states, transitions, queue,
                   prefixes, pc, path, pending>>

Next ==
    \/ CompileBegin
    \/ CompileLoop
    \/ CompileReturn
    \/ \E r \in 1..NumReaders : AllowCall(r)
    \/ \E r \in 1..NumReaders : AllowChar(r)
    \/ \E r \in 1..NumReaders : AllowEow(r)

(***************************************************************************)
(* Inputs.                                                                 *)
(***************************************************************************)
\* lists given in the order of their patterns (rules of one pattern in
\* either order)
InPatternOrder(rs) ==
    \A i \in 1..(Len(rs) - 1) : ~str_less(inner(rs[i + 1]), inner(rs[i]))

\* the rules with a pattern of pats
RulesOver(pats) == {Rule(tag, p) : tag \in {Allow, Disallow}, p \in pats}

RECURSIVE ListsWithin(_, _, _, _)
\* the lists of at most n rules whose patterns, over chars, have at least lo
\* characters each and at most budget characters together
ListsWithin(chars, lo, budget, n) ==
    IF n = 0 THEN {<<>>}
    ELSE {<<>>} \cup
         UNION {{<<rule>> \o rest :
                    rest \in ListsWithin(chars, lo, budget - Len(inner(rule)), n - 1)} :
                rule \in RulesOver(Strings(chars, lo, budget))}

\* those of them given in the order of their patterns
OrderedLists(chars, lo, budget, n) ==
    {rs \in ListsWithin(chars, lo, budget, n) : InPatternOrder(rs)}

(***************************************************************************)
(* Spec: rule lists over '$', '*' and 'a', the empty pattern and '$' at any *)
(* position included; one caller of allow.                                 *)
(***************************************************************************)
AnyLists == OrderedLists({Dollar, Star, 97}, 0, MaxChars, MaxRules)

Init == InitOf(AnyLists, MaxPath, {1})
Spec == Init /\ [][Next]_vars

\* a caller whose call of allow has returned
Returned(r) == r \in active /\ rpc[r] = "returned"

\* a sequence without its last entry
but_last(s) == SubSeq(s, 1, Len(s) - 1)

\* a is a prefix of b, strictly
strict_prefix(a, b) == starts_with(b, a) /\ a # b

(***************************************************************************)
(* SpecLit: patterns of literal characters only ('/' and 'a').             *)
(***************************************************************************)
LitLists == OrderedLists({47, 97}, 1, MaxChars + 1, MaxRules)

InitLit == InitOf(LitLists, MaxPath + 1, {1})
SpecLit == InitLit /\ [][Next]_vars

\* the rules of rs whose pattern is a prefix of p and of the greatest length
\* among those
LongestPrefixRules(rs, p) ==
    LET hits == {i \in 1..Len(rs) : starts_with(p, inner(rs[i]))}
    IN  {rs[i] : i \in {j \in hits : \A k \in hits : Len(inner(rs[k])) <= Len(inner(rs[j]))}}

\* C1: with patterns of literal characters, a returned call of allow yields
\* the tag (Allow = TRUE, Disallow = FALSE) of the longest pattern that is a
\* prefix of the path, when the rules of that pattern carry one tag.
ThmC1 ==
    \A r \in 1..NumReaders :
        Returned(r) =>
            \A tag \in {Allow, Disallow} :
                LET longest == LongestPrefixRules(input, path[r])
                IN  (longest # {} /\ \A rule \in longest : rule.tag = tag)
                        => result[r] = <<tag = Allow>>

\* a pattern and a strict extension of it with the other tag; the path
\* extends the longer one and gets its tag
WitC1 ==
    \E r \in 1..NumReaders : \E i, j \in 1..Len(input) :
        /\ Returned(r)
        /\ strict_prefix(inner(input[i]), inner(input[j]))
        /\ input[i].tag # input[j].tag
        /\ strict_prefix(inner(input[j]), path[r])
        /\ result[r] = <<input[j].tag = Allow>>

(***************************************************************************)
(* SpecWild: [Disallow("/"), Allow(P)], P = "/..." with a '*'.             *)
(***************************************************************************)
WildPatterns ==
    {p \in Strings({47, Star, 97}, 2, MaxChars + 1) :
        p[1] = 47 /\ \E k \in 1..Len(p) : p[k] = Star}
WildLists == {<<Rule(Disallow, <<47>>), Rule(Allow, p)>> : p \in WildPatterns}

InitWild == InitOf(WildLists, MaxPath + 2, {1})
SpecWild == InitWild /\ [][Next]_vars

RECURSIVE matches_prefix(_, _)
\* some prefix of s matches pattern, each '*' standing for zero or more
\* characters
matches_prefix(pattern, s) ==
    IF pattern = <<>> THEN TRUE
    ELSE IF Head(pattern) = Star
         THEN \/ matches_prefix(Tail(pattern), s)
              \/ s # <<>> /\ matches_prefix(pattern, Tail(s))
    ELSE /\ s # <<>>
         /\ Head(s) = Head(pattern)
         /\ matches_prefix(Tail(pattern), Tail(s))

\* C2: for [Disallow("/"), Allow(P)], allow is TRUE for the paths with a
\* prefix that matches P with '*' as zero or more characters, and FALSE for
\* the other paths that start with "/".
CexC2 ==
    \A r \in 1..NumReaders :
        (Returned(r) /\ starts_with(path[r], <<47>>))
            => result[r] = <<matches_prefix(inner(input[2]), path[r])>>

(***************************************************************************)
(* SpecEow: patterns over 'a' and '$', '$' at any position.                *)
(***************************************************************************)
EowLists == OrderedLists({Dollar, 97}, 1, MaxChars + 1, MaxRules)

InitEow == InitOf(EowLists, MaxPath + 1, {1})
SpecEow == InitEow /\ [][Next]_vars

\* rule i of rs has a pattern P$, P not empty and without '*' and '$', that
\* no other rule of rs has
Anchored(rs, i) ==
    LET p == inner(rs[i])
    IN  /\ Len(p) >= 2
        /\ p[Len(p)] = Dollar
        /\ \A k \in 1..(Len(p) - 1) : p[k] \notin {Dollar, Star}
        /\ \A j \in 1..Len(rs) : j # i => inner(rs[j]) # p

\* rs without its rule i
Without(rs, i) == SubSeq(rs, 1, i - 1) \o SubSeq(rs, i + 1, Len(rs))

\* allow on the DFA compiled from rs
allow_of(rs, p) == LET m == compile(rs) IN allow(m.states, m.transitions, p)

\* C3: with a rule P$ among rules without '*', allow(P) is the tag of the
\* rule P$, and allow of a path that strictly extends P is what it is for the
\* rule list without the rule P$.
ThmC3 ==
    \A r \in 1..NumReaders :
        Returned(r) =>
            \A i \in 1..Len(input) :
                Anchored(input, i) =>
                    LET p == SubSeq(inner(input[i]), 1, Len(inner(input[i])) - 1)
                    IN  /\ path[r] = p => result[r] = <<input[i].tag = Allow>>
                        /\ strict_prefix(p, path[r])
                               => result[r] = allow_of(Without(input, i), path[r])

\* allow(P) has returned the tag of P$ against a rule P of the other tag
WitC3 ==
    \E r \in 1..NumReaders : \E i, j \in 1..Len(input) :
        /\ Returned(r)
        /\ Anchored(input, i)
        /\ inner(input[i]) = Append(path[r], Dollar)
        /\ inner(input[j]) = path[r]
        /\ input[j].tag # input[i].tag
        /\ result[r] = <<input[i].tag = Allow>>

(***************************************************************************)
(* Claims checked under Spec.                                              *)
(***************************************************************************)
\* C4: matching never gets stuck: no call of allow panics, every state a call
\* reads is an index of states and of transitions, every lookup for a path
\* character finds a transition, and a returned call yields a boolean.
ThmC4 ==
    \A r \in 1..NumReaders :
        /\ rpc[r] # "panic"
        /\ rpc[r] \in {"fold", "returned"}
               => InBounds(transitions, state[r]) /\ InBounds(states, state[r])
        /\ last[r].sym # <<>> => last[r].found # <<>>
        /\ rpc[r] = "returned" => result[r] \in {<<TRUE>>, <<FALSE>>}

\* a call has returned for a path whose last character matched no literal
\* edge, on a rule list with a '$' before the end of a pattern
WitC4 ==
    \E r \in 1..NumReaders : \E i \in 1..Len(input) :
        /\ Returned(r)
        /\ path[r] # <<>>
        /\ Len(inner(input[i])) = 2 /\ inner(input[i])[1] = Dollar
        /\ starts_with(path[r], <<Dollar>>)

\* C5: no entry of the states array of a returned DFA is Intermediate.
ThmC5 ==
    /\ pc = "done" => \A i \in 1..Len(states) : states[i] \in {Allow, Disallow}
    /\ \A r \in 1..NumReaders :
           rpc[r] # "idle"
               => InBounds(states, state[r]) /\ At(states, state[r]) # Intermediate

\* a DFA has been returned with the state of a prefix that is no rule's
\* pattern
WitC5 ==
    /\ pc = "done"
    /\ \E i \in 1..Len(input) :
           /\ Len(inner(input[i])) = 2
           /\ \A j \in 1..Len(input) : inner(input[j]) # SubSeq(inner(input[i]), 1, 1)

(***************************************************************************)
(* SpecPerm: rule lists of pairwise distinct patterns over '$', '*' and    *)
(* 'a', in every order.                                                    *)
(***************************************************************************)
PermLists ==
    {rs \in ListsWithin({Dollar, Star, 97}, 1, MaxChars, MaxRules) :
        \A i, j \in 1..Len(rs) : i # j => inner(rs[i]) # inner(rs[j])}

InitPerm == InitOf(PermLists, 1, {1})
SpecPerm == InitPerm /\ [][Next]_vars

\* the permutations of the list rs
Permutations_(rs) ==
    {[k \in 1..Len(rs) |-> rs[f[k]]] :
        f \in {g \in [1..Len(rs) -> 1..Len(rs)] :
                  \A a, b \in 1..Len(rs) : a # b => g[a] # g[b]}}

\* compile has returned and allow has not been called yet
AtReturn == pc = "done" /\ \A r \in 1..NumReaders : rpc[r] = "idle"

\* C6: for rules of pairwise distinct patterns, compile of any permutation
\* of the list returns the states and the transitions that compile of the
\* list returns.
ThmC6 ==
    AtReturn =>
        \A perm \in Permutations_(input) :
            LET m == compile(perm)
            IN  ~m.panic /\ m.states = states /\ m.transitions = transitions

\* compile has returned for a list that was not given in pattern order
WitC6 ==
    /\ AtReturn
    /\ \E i, j \in 1..Len(input) : i < j /\ str_less(inner(input[j]), inner(input[i]))

(***************************************************************************)
(* SpecUtf8: patterns over 'a' and U+00E9.                                 *)
(***************************************************************************)
Utf8Lists == OrderedLists({97, 233}, 1, MaxChars, MaxRules)

InitUtf8 == InitOf(Utf8Lists, MaxPath, {1})
SpecUtf8 == InitUtf8 /\ [][Next]_vars

\* C7: compile cannot fail for a rule list of non-empty patterns.
CexC7 == pc # "panic"

(***************************************************************************)
(* SpecShared: NumReaders callers of allow on one DFA.                     *)
(***************************************************************************)
SharedLists == OrderedLists({Star, 97}, 1, MaxChars, MaxRules)

InitShared == InitOf(SharedLists, 1, 1..NumReaders)
SpecShared == InitShared /\ [][Next]_vars

\* C8: once compile has returned, no step changes states or transitions, and
\* every call of allow, however interleaved with others, returns what allow
\* computes on the DFA alone.
ThmC8 ==
    /\ [][pc = "done" => states' = states /\ transitions' = transitions]_vars
    /\ [](\A r \in 1..NumReaders :
              Returned(r) => result[r] = allow(states, transitions, path[r]))

\* a call has returned while another caller is inside its fold
WitC8 ==
    \E r1, r2 \in 1..NumReaders :
        /\ r1 # r2
        /\ Returned(r1) /\ path[r1] # <<>>
        /\ rpc[r2] = "fold" /\ pending[r2] # path[r2]

(***************************************************************************)
(* SpecSort: patterns over '%', '*' and 'a'; '%' sorts before '*'.         *)
(***************************************************************************)
SortLists == OrderedLists({37, Star, 97}, 1, MaxChars, MaxRules)

InitSort == InitOf(SortLists, MaxPath, {1})
SpecSort == InitSort /\ [][Next]_vars

\* the edge list of the state the latest lookup of caller r left
ListLeft(r) == At(transitions, last[r].from)

HasEdge(t, edge) == \E k \in 1..Len(t) : t[k].edge = edge

\* C9: when the list of the state holds a match-literal edge for the path
\* character, the lookup follows a match-literal edge for it, not a match-any
\* edge.
CexC9 ==
    \A r \in 1..NumReaders :
        (/\ last[r].sym # <<>>
         /\ last[r].found # <<>>
         /\ HasEdge(ListLeft(r), MatchChar(last[r].sym[1])))
            => last[r].found[1].edge = MatchChar(last[r].sym[1])

\* C10: the lookup after the last character follows a match-end-of-path edge
\* when the list holds one, a match-any edge only when it holds no
\* match-end-of-path edge, and keeps the state when it holds neither.
CexC10 ==
    \A r \in 1..NumReaders :
        (rpc[r] = "returned" /\ last[r].sym = <<>>) =>
            IF HasEdge(ListLeft(r), MatchEow)
            THEN last[r].found # <<>> /\ last[r].found[1].edge = MatchEow
            ELSE IF HasEdge(ListLeft(r), MatchAny)
            THEN last[r].found # <<>> /\ last[r].found[1].edge = MatchAny
            ELSE last[r].found = <<>> /\ state[r] = last[r].from

\* the number of match-any edges of the edge list t
count_any(t) == Cardinality({k \in 1..Len(t) : t[k].edge = MatchAny})

sink_list(s) == <<Transition(MatchAny, s)>>

\* C12: from the start of the loop on, states[0] = Allow with the single edge
\* (match-any -> 0) and states[1] = Disallow with the single edge
\* (match-any -> 1), so compile never adds an edge to either list; the root
\* of the prefixes is state 2, whose list holds an edge for the first
\* character of every pattern; a lookup of allow made in state 0 or 1 leaves
\* the state as it is, and a call that ends in a sink returns true for 0 and
\* false for 1.
ThmC12 ==
    /\ pc \in {"loop", "done"} =>
           /\ Len(states) >= 2 /\ Len(transitions) >= 2
           /\ At(states, 0) = Allow /\ At(transitions, 0) = sink_list(0)
           /\ At(states, 1) = Disallow /\ At(transitions, 1) = sink_list(1)
    /\ AtReturn =>
           /\ Len(states) >= 3 /\ Len(transitions) = Len(states)
           /\ At(prefixes, 2) = <<>>
           /\ \A i \in 1..Len(input) :
                  inner(input[i]) # <<>> =>
                      HasEdge(At(transitions, 2), edge_of(inner(input[i])[1]))
    /\ \A r \in 1..NumReaders :
           /\ (last[r].found # <<>> /\ last[r].from \in {0, 1}) =>
                  /\ state[r] = last[r].from
                  /\ rpc[r] # "panic"
           /\ (Returned(r) /\ state[r] \in {0, 1}) =>
                  result[r] = <<state[r] = 0>>

\* a call that entered the Disallow sink before the last character of its
\* path and has returned
WitC12 ==
    \E r \in 1..NumReaders :
        /\ Returned(r)
        /\ Len(path[r]) >= 2
        /\ last[r].from = 1
        /\ last[r].sym = <<>>
        /\ result[r] = <<FALSE>>
        /\ Len(transitions) > 3

\* the character an edge kind was made from (lines 166-172, read backwards)
char_of(edge) ==
    IF edge = MatchAny THEN Star
    ELSE IF edge = MatchEow THEN Dollar
    ELSE edge[2]

\* the prefix the index g stands for at an iteration boundary: the prefix of
\* the state at g when it is appended, otherwise that of the queue entry
\* that many iterations away from its turn
prefix_at(g) ==
    IF g < Len(transitions) THEN At(prefixes, g)
    ELSE queue[g - Len(transitions) + 1].prefix

\* the edge `transition` of the list of state s is the edge of the child
\* prefix p: p is the prefix of s, then '*' when the edge was copied from a
\* '*' child, then the character of the edge
is_child_edge(s, transition, p) ==
    \/ p = Append(At(prefixes, s), char_of(transition.edge))
    \/ p = At(prefixes, s) \o <<Star, char_of(transition.edge)>>

\* C13: at every iteration boundary states and transitions have the same
\* length, and every recorded child edge targets the index of its child
\* prefix: the state appended for that prefix, or the place of that prefix
\* in the queue counted from the number of states; at the return every edge
\* target is smaller than the number of states.
ThmC13 ==
    (pc = "loop" \/ AtReturn) =>
        /\ Len(states) = Len(transitions)
        /\ Len(prefixes) = Len(transitions)
        /\ \A s \in 2..(Len(transitions) - 1) :
               \A k \in 2..Len(At(transitions, s)) :
                   LET transition == At(transitions, s)[k]
                   IN  /\ transition.next_state > s
                       /\ transition.next_state < Len(transitions) + Len(queue)
                       /\ is_child_edge(s, transition, prefix_at(transition.next_state))
        /\ pc = "done" =>
               \A s \in 0..(Len(transitions) - 1) :
                   \A k \in 1..Len(At(transitions, s)) :
                       At(transitions, s)[k].next_state < Len(states)

\* an iteration boundary with an edge to a child that is neither appended
\* yet nor the next one to be appended, its prefix waiting behind another
\* one in the queue
WitC13 ==
    /\ pc = "loop"
    /\ Len(queue) >= 2
    /\ \E s \in 2..(Len(transitions) - 1) :
           \E k \in 2..Len(At(transitions, s)) :
               At(transitions, s)[k].next_state > Len(transitions)

\* what C14 says of one iteration of the loop that expands the head of the
\* queue and appends its list at the index own
StepC14 ==
    (pc = "loop" /\ queue # <<>> /\ pc' = "loop") =>
        LET head == Head(queue)
            own == Len(transitions)
            parent == head.parent_state
            t == At(transitions', own)
            others == {s \in 0..(own - 1) : s # parent}
        IN  /\ Len(transitions') = own + 1
            /\ IF chars_last(head.prefix) = <<Star>>
               THEN /\ t[1] = Transition(MatchAny, own)
                    /\ parent >= 2 /\ parent < own
                    /\ At(prefixes, parent) = but_last(head.prefix)
                    /\ At(transitions', parent) = At(transitions, parent) \o Tail(t)
                    /\ \A s \in others : At(transitions', s) = At(transitions, s)
               ELSE /\ t[1].next_state # own
                    /\ but_last(transitions') = transitions

\* C14: an iteration that expands a prefix ending with '*' gives it the first
\* edge (match-any -> its own index) and appends every child edge of its
\* list, in the same order, to the list of the state of the prefix without
\* that '*', and to no other list; an iteration that expands any other prefix
\* changes no list appended before.
ThmC14 == [][StepC14]_vars

\* a returned DFA with a prefix ending with '*' that has a child, whose edge
\* is in the list of the prefix and in the list of its parent
WitC14 ==
    /\ AtReturn
    /\ \E s \in 3..(Len(transitions) - 1) :
           LET t == At(transitions, s)
           IN  /\ t[1] = Transition(MatchAny, s)
               /\ Len(t) >= 2
               /\ \E q \in 2..(s - 1) :
                      \E k \in 2..Len(At(transitions, q)) :
                          At(transitions, q)[k] = t[2]

(***************************************************************************)
(* SpecTree: non-empty patterns of 'a' and '*' with '$', if at all, as the *)
(* last character.                                                         *)
(***************************************************************************)
\* '$' occurs in the pattern only as its last character
eow_last_only(pattern) == \A k \in 1..(Len(pattern) - 1) : pattern[k] # Dollar

TreeLists ==
    {rs \in OrderedLists({Dollar, Star, 97}, 1, MaxChars + 1, MaxRules) :
        \A i \in 1..Len(rs) : eow_last_only(inner(rs[i]))}

InitTree == InitOf(TreeLists, 1, {1})
SpecTree == InitTree /\ [][Next]_vars

\* the positions of the rules of rs whose pattern is p
rules_of(rs, p) == {i \in 1..Len(rs) : inner(rs[i]) = p}

\* the tag of the first rule of rs whose pattern is p
first_tag(rs, p) ==
    rs[CHOOSE i \in rules_of(rs, p) : \A j \in rules_of(rs, p) : i <= j].tag

\* the longest strict prefixes of p that are the pattern of a rule of rs
governing(rs, p) ==
    LET shorter == {inner(rs[i]) : i \in {j \in 1..Len(rs) :
                                            strict_prefix(inner(rs[j]), p)}}
    IN  {q \in shorter : \A q2 \in shorter : Len(q2) <= Len(q)}

\* C15: at the return, the state of a prefix that is the pattern of a rule
\* has the tag of the first such rule; the state of any other prefix has the
\* classification of the state of its longest strict prefix that is the
\* pattern of a rule, Allow when it has none.
ThmC15 ==
    AtReturn =>
        LET px == prefixes
        IN  \A s \in 2..(Len(states) - 1) :
                LET p == At(px, s)
                IN  IF rules_of(input, p) # {}
                    THEN At(states, s) = first_tag(input, p)
                    ELSE IF governing(input, p) = {}
                    THEN At(states, s) = Allow
                    ELSE \E q \in governing(input, p) :
                             /\ At(states, s) = first_tag(input, q)
                             /\ \E g \in 2..(s - 1) :
                                    At(px, g) = q /\ At(states, g) = At(states, s)

\* a returned DFA, compiled from rules with a '*', with a prefix that is no
\* pattern and is classified Disallow like its nearest shorter prefix that
\* is one
WitC15 ==
    /\ AtReturn
    /\ LET px == prefixes
       IN  \E s \in 2..(Len(states) - 1) :
               /\ rules_of(input, At(px, s)) = {}
               /\ governing(input, At(px, s)) # {}
               /\ At(states, s) = Disallow
               /\ Star \in CharsOf(input)

(***************************************************************************)
(* SpecDup: rule lists over '*' and 'a', in every order, in which two      *)
(* rules have the same pattern and different tags.                         *)
(***************************************************************************)
\* rules i < j of rs have the same pattern and different tags
clash(rs, i, j) ==
    /\ i < j
    /\ inner(rs[i]) = inner(rs[j])
    /\ rs[i].tag # rs[j].tag

DupLists ==
    {rs \in ListsWithin({Star, 97}, 1, MaxChars + 1, MaxRules + 1) :
        \E i, j \in 1..Len(rs) : clash(rs, i, j)}

InitDup == InitOf(DupLists, 1, {1})
SpecDup == InitDup /\ [][Next]_vars

\* C16: at the return, for rules i < j of the input with the same pattern
\* and different tags, the pattern has a state, that state has the tag of
\* the first rule of the input with the pattern, and compile of the input
\* without rule j returns the same states and transitions.
ThmC16 ==
    AtReturn =>
        LET px == prefixes
        IN  \A i, j \in 1..Len(input) :
                clash(input, i, j) =>
                    /\ \E s \in 2..(Len(states) - 1) : At(px, s) = inner(input[i])
                    /\ \A s \in 2..(Len(states) - 1) :
                           At(px, s) = inner(input[i]) =>
                               At(states, s) = first_tag(input, inner(input[i]))
                    /\ LET m == compile(Without(input, j))
                       IN  m.states = states /\ m.transitions = transitions

\* a returned DFA for a list whose first rule is Disallow(P), followed by a
\* rule of a longer pattern, followed by Allow(P): the state of P is Disallow
WitC16 ==
    /\ AtReturn
    /\ Len(input) = 3
    /\ clash(input, 1, 3)
    /\ input[1].tag = Disallow
    /\ strict_prefix(inner(input[1]), inner(input[2]))
    /\ \E s \in 2..(Len(states) - 1) :
           /\ At(prefixes, s) = inner(input[1])
           /\ At(states, s) = Disallow

(***************************************************************************)
(* SpecMal: rule lists over '$', '*' and 'a' with a malformed rule, one    *)
(* whose pattern has a '$' before its last character.                      *)
(***************************************************************************)
malformed(pattern) == ~eow_last_only(pattern)

MalLists ==
    {rs \in OrderedLists({Dollar, Star, 97}, 1, MaxChars + 1, MaxRules) :
        \E i \in 1..Len(rs) : malformed(inner(rs[i]))}

InitMal == InitOf(MalLists, MaxPath, {1})
SpecMal == InitMal /\ [][Next]_vars

\* the rules of rs that are not malformed, in their order
well_formed(rs) == SelectSeq(rs, LAMBDA rule : ~malformed(inner(rule)))

\* no pattern of rs has a '*'
star_free(rs) == \A i \in 1..Len(rs) : \A k \in 1..Len(inner(rs[i])) : inner(rs[i])[k] # Star

\* what every lookup of a call of allow satisfies, whatever the rules: a
\* match-end-of-path edge is followed only after the last character of the
\* path, and the state the call is in is a sink or the state of a prefix with
\* no character behind a '$'
NeverBeyondEow ==
    \A r \in 1..NumReaders :
        r \in active /\ rpc[r] # "idle" =>
            /\ rpc[r] # "panic"
            /\ InBounds(states, state[r])
            /\ eow_last_only(At(prefixes, state[r]))
            /\ (last[r].sym # <<>> /\ last[r].found # <<>>) =>
                   last[r].found[1].edge # MatchEow

\* C17 as stated: with a malformed rule in the list, no call of allow is
\* ever in a state whose prefix goes on behind a '$', no path character
\* follows a match-end-of-path edge, and every call returns what it returns
\* for the other rules, those that are not malformed.
CexC17 ==
    /\ NeverBeyondEow
    /\ \A r \in 1..NumReaders :
           Returned(r) => result[r] = allow_of(well_formed(input), path[r])

\* C17, amended: with a malformed rule in the list, no call of allow is ever
\* in a state whose prefix goes on behind a '$' and no path character follows
\* a match-end-of-path edge; when no pattern of the list has a '*', every
\* call returns what it returns for the rules that are not malformed.
ThmC17 ==
    /\ NeverBeyondEow
    /\ \A r \in 1..NumReaders :
           (Returned(r) /\ star_free(input)) =>
               result[r] = allow_of(well_formed(input), path[r])

\* a call on the text of a malformed pattern, or on its text before the
\* first '$' of it, has returned, the list having another rule, which
\* disallows the path
WitC17 ==
    \E r \in 1..NumReaders :
        /\ Returned(r)
        /\ star_free(input)
        /\ Len(input) = 2
        /\ result[r] = <<FALSE>>
        /\ \E i \in 1..Len(input) :
               /\ malformed(inner(input[i]))
               /\ \/ path[r] = inner(input[i])
                  \/ /\ strict_prefix(path[r], inner(input[i]))
                     /\ inner(input[i])[Len(path[r]) + 1] = Dollar
                     /\ Dollar \notin {path[r][k] : k \in 1..Len(path[r])}

literal(pattern) == \A k \in 1..Len(pattern) : pattern[k] \notin {Star, Dollar}

\* two entries of the edge list t are match-literal edges for one character
\* with different targets
two_targets(t) ==
    \E k, l \in 1..Len(t) :
        /\ t[k].edge = t[l].edge
        /\ t[k].edge \notin {MatchAny, MatchEow}
        /\ t[k].next_state # t[l].next_state

\* C19: at the return no edge list has two match-literal edges for the same
\* character with different targets, and a call of allow on a path that is
\* the literal pattern of a rule is, after the last character, in the state
\* of that pattern.
CexC19 ==
    /\ AtReturn => \A s \in 1..Len(transitions) : ~two_targets(transitions[s])
    /\ \A r \in 1..NumReaders :
           (Returned(r) /\ literal(path[r]) /\ rules_of(input, path[r]) # {}) =>
               At(prefixes, last[r].from) = path[r]

RECURSIVE matches_rule(_, _)
\* some prefix of s matches pattern, each '*' standing for zero or more
\* characters and a final '$' for the end of s; a '$' elsewhere matches
\* nothing
matches_rule(pattern, s) ==
    IF pattern = <<>> THEN TRUE
    ELSE IF Head(pattern) = Star
         THEN \/ matches_rule(Tail(pattern), s)
              \/ s # <<>> /\ matches_rule(pattern, Tail(s))
    ELSE IF Head(pattern) = Dollar
         THEN Tail(pattern) = <<>> /\ s = <<>>
    ELSE /\ s # <<>>
         /\ Head(s) = Head(pattern)
         /\ matches_rule(Tail(pattern), Tail(s))

\* no rule of rs has a pattern that matches a prefix of s
unmatched(rs, s) == \A i \in 1..Len(rs) : ~matches_rule(inner(rs[i]), s)

\* C20: a call of allow on a path of which no prefix matches the pattern of
\* a rule returns true; so does every call on the DFA of the empty list.
ThmC20 ==
    \A r \in 1..NumReaders :
        r \in active /\ rpc[r] # "idle" =>
            /\ (input = <<>> \/ unmatched(input, path[r])) => rpc[r] # "panic"
            /\ (Returned(r) /\ unmatched(input, path[r])) => result[r] = <<TRUE>>
            /\ (Returned(r) /\ input = <<>>) => result[r] = <<TRUE>>

\* a call has returned for a path of two characters that ends in a state
\* other than the sinks and the root, the list holding two Disallow rules
\* that are not malformed, one of them with a '*', none of them matching a
\* prefix of the path
WitC20 ==
    \E r \in 1..NumReaders :
        /\ Returned(r)
        /\ Len(input) = 2
        /\ \A i \in 1..Len(input) :
               input[i].tag = Disallow /\ eow_last_only(inner(input[i]))
        /\ Star \in CharsOf(input)
        /\ unmatched(input, path[r])
        /\ Len(path[r]) = 2
        /\ last[r].from > 2

====
